---- MODULE Spec2Model ----
(***************************************************************************)
(* A state-machine model of the devtools Agent (src/agent/Agent.js).       *)
(*                                                                         *)
(* JavaScript values are tagged pairs <<tag, n>>:                          *)
(*   <<"obj", n>>   an object reference (an opaque node handle)            *)
(*   <<"str", n>>   a primitive string ("" when n = 0)                     *)
(*   <<"num", n>>   the number n, <<"bool", n>> false (0) or true (1)      *)
(*   <<"guid", n>>  the n-th string returned by guid()                     *)
(*   <<"node", n>>  a native node, <<"inst", n>> a public instance         *)
(*   <<"null", 0>>, <<"undef", 0>>                                         *)
(* A JavaScript object with optional properties is a function whose        *)
(* domain is the set of the properties it has; a Map is a function whose   *)
(* domain is the set of its keys.                                          *)
(***************************************************************************)
EXTENDS Integers, Sequences, FiniteSets, TLC

VARIABLES
  ids,            \* Agent.ids: WeakMap handle -> ElementID
  reactElements,  \* Agent.reactElements: Map ElementID -> handle
  elementData,    \* Agent.elementData: Map ElementID -> raw data
  roots,          \* Agent.roots: Set of ElementID
  renderers,      \* Agent.renderers: Map ElementID -> RendererID
  reactInternals, \* Agent.reactInternals: RendererID -> helpers
  guidCount,      \* number of strings guid() has returned so far
  bridge,         \* TRUE once addBridge(bridge) has registered its listeners
  scrollUpdate,   \* Agent._scrollUpdate
  rafQueue,       \* animation-frame callbacks requested and not yet run
  global,         \* the debugging slots global.$re and global.$tmp
  hook,           \* window.__REACT_DEVTOOLS_GLOBAL_HOOK__: $node, $inst, $0
  _prevSelected,  \* Agent._prevSelected
  internalsKeys,  \* the keys of Agent.reactInternals, in for-in order
  unmounted,      \* history: the ids for which 'unmount' has been emitted
  carried,        \* history: handle -> the ids that root, mount and update
                  \* events carried for it since it was last unmounted
  call,           \* the handler that ran last, with its arguments
  out             \* what that handler did, in order: emits, sends, calls

vars == <<ids, reactElements, elementData, roots, renderers, reactInternals,
          guidCount, bridge, scrollUpdate, rafQueue, global, hook,
          _prevSelected, internalsKeys, unmounted, carried, call, out>>

-----------------------------------------------------------------------------
(* Bounds of the model *)

MaxIds == 2        \* guid() is called at most this many times

-----------------------------------------------------------------------------
(* Values *)

Obj(n) == <<"obj", n>>
Str(n) == <<"str", n>>
Num(n) == <<"num", n>>          \* the number n
Bool(n) == <<"bool", n>>        \* false (0) or true (1)
Null == <<"null", 0>>
Undefined == <<"undef", 0>>

\* typeof element === 'object' && element
IsObject(v) == v[1] = "obj"

\* JavaScript truthiness of a modelled value
Truthy(v) ==
  /\ v[1] \notin {"null", "undef"}
  /\ ~(v[1] \in {"num", "bool", "str"} /\ v[2] = 0)

\* OpaqueNodeHandle: the producers' calls take object references
ObjHandles == {Obj(1), Obj(2)}
Renderers == {"r1", "r2"}

MapSet(m, k, v) == [x \in DOMAIN m \cup {k} |-> IF x = k THEN v ELSE m[x]]
MapDelete(m, k) == [x \in DOMAIN m \ {k} |-> m[x]]
EmptyMap == [x \in {} |-> Null]

-----------------------------------------------------------------------------
(* The identity registry *)

\* require('../utils/guid'): a new process-unique token on every call
guid(n) == <<"guid", n>>

registry == [ids |-> ids, reactElements |-> reactElements, guidCount |-> guidCount]

\* a getId that allocates on every call (no lookup of the handle first)
getIdAlwaysFresh(reg, element) ==
  IF ~IsObject(element)
  THEN [reg |-> reg, id |-> element]
  ELSE LET g == guid(reg.guidCount) IN
       [reg |-> [ids |-> MapSet(reg.ids, element, g),
                 reactElements |-> MapSet(reg.reactElements, g, element),
                 guidCount |-> reg.guidCount + 1],
        id |-> g]

\* a getId that gives a handle it has seen before the identity it had
getIdRecycles(reg, element) ==
  IF ~IsObject(element)
  THEN [reg |-> reg, id |-> element]
  ELSE IF element \in DOMAIN reg.ids
  THEN [reg |-> reg, id |-> reg.ids[element]]
  ELSE IF \E g \in DOMAIN reg.reactElements : reg.reactElements[g] = element
  THEN LET old == CHOOSE g \in DOMAIN reg.reactElements :
                    reg.reactElements[g] = element
       IN [reg |-> [reg EXCEPT !.ids = MapSet(reg.ids, element, old)], id |-> old]
  ELSE LET g == guid(reg.guidCount) IN
       [reg |-> [ids |-> MapSet(reg.ids, element, g),
                 reactElements |-> MapSet(reg.reactElements, g, element),
                 guidCount |-> reg.guidCount + 1],
        id |-> g]

\* a getId that registers whatever it is given, object reference or not
getIdRegistersAll(reg, element) ==
  IF element \notin DOMAIN reg.ids
  THEN LET g == guid(reg.guidCount) IN
       [reg |-> [ids |-> MapSet(reg.ids, element, g),
                 reactElements |-> MapSet(reg.reactElements, g, element),
                 guidCount |-> reg.guidCount + 1],
        id |-> g]
  ELSE [reg |-> reg, id |-> reg.ids[element]]

\* Agent.getId, on the registry reg: the registry afterwards and the result
getId(reg, element) ==
  IF ~IsObject(element)
  THEN [reg |-> reg, id |-> element]
  ELSE IF element \notin DOMAIN reg.ids
       THEN LET g == guid(reg.guidCount) IN
            [reg |-> [ids |-> MapSet(reg.ids, element, g),
                      reactElements |-> MapSet(reg.reactElements, g, element),
                      guidCount |-> reg.guidCount + 1],
             id |-> g]
       ELSE [reg |-> reg, id |-> reg.ids[element]]

\* a map of the children that allocates an identity for every object child,
\* registered or not
RECURSIVE mapGetIdFresh(_, _)
mapGetIdFresh(reg, items) ==
  IF items = <<>>
  THEN [reg |-> reg, ids |-> <<>>]
  ELSE LET first == getIdAlwaysFresh(reg, Head(items))
           rest == mapGetIdFresh(first.reg, Tail(items))
       IN [reg |-> rest.reg, ids |-> <<first.id>> \o rest.ids]

\* send.children.map(c => this.getId(c)), left to right
RECURSIVE mapGetId(_, _)
mapGetId(reg, items) ==
  IF items = <<>>
  THEN [reg |-> reg, ids |-> <<>>]
  ELSE LET first == getId(reg, Head(items))
           rest == mapGetId(first.reg, Tail(items))
       IN [reg |-> rest.reg, ids |-> <<first.id>> \o rest.ids]

-----------------------------------------------------------------------------
(* Events *)

\* listeners that do not forward 'update'
bridgeListenersNoUpdate(e) ==
  CASE e.ev \in {"root", "mount"} -> <<[e EXCEPT !.k = "send"]>>
    [] e.ev = "unmount" -> <<[k |-> "send", ev |-> "unmount", id |-> e.id],
                             [k |-> "forget", ev |-> "forget", id |-> e.id]>>
    [] e.ev = "setSelection" -> <<[e EXCEPT !.k = "send", !.ev = "select"]>>
    [] OTHER -> <<>>

\* listeners that forget the identity before they send its unmount
bridgeListenersForgetFirst(e) ==
  CASE e.ev \in {"root", "mount", "update"} -> <<[e EXCEPT !.k = "send"]>>
    [] e.ev = "unmount" -> <<[k |-> "forget", ev |-> "forget", id |-> e.id],
                             [k |-> "send", ev |-> "unmount", id |-> e.id]>>
    [] e.ev = "setSelection" -> <<[e EXCEPT !.k = "send", !.ev = "select"]>>
    [] OTHER -> <<>>

\* the listeners addBridge registers on the agent, run for the emitted event e
bridgeListeners(e) ==
  CASE e.ev \in {"root", "mount", "update"} -> <<[e EXCEPT !.k = "send"]>>
    [] e.ev = "unmount" -> <<[k |-> "send", ev |-> "unmount", id |-> e.id],
                             [k |-> "forget", ev |-> "forget", id |-> e.id]>>
    [] e.ev = "setSelection" -> <<[e EXCEPT !.k = "send", !.ev = "select"]>>
    [] OTHER -> <<>>

\* this.emit(...): the event, then what its listeners do
emit(b, e) == <<e>> \o (IF b THEN bridgeListeners(e) ELSE <<>>)

-----------------------------------------------------------------------------
(* The raw data a producer reports for a node *)

Slots == {"setInProps", "setInState", "setInContext", "forceUpdate"}

NoChildren == [kind |-> "absent", items |-> <<>>]
TextChildren == [kind |-> "string", items |-> <<>>]   \* children: a string
ArrayChildren(items) == [kind |-> "array", items |-> items]

NoUpdater == [present |-> FALSE, slots |-> {}]
Updater(slots) == [present |-> TRUE, slots |-> slots]

\* the data object {name, type, children?, updater?, publicInstance?}
mkData(ch, up, inst) ==
  [f \in {"name", "type"}
         \cup (IF ch.kind = "absent" THEN {} ELSE {"children"})
         \cup (IF up.present THEN {"updater"} ELSE {})
         \cup (IF Truthy(inst) THEN {"publicInstance"} ELSE {}) |->
     CASE f = "name" -> Str(2)
       [] f = "type" -> <<"type", 1>>
       [] f = "children" -> ch
       [] f = "updater" -> up.slots
       [] f = "publicInstance" -> inst]

\* a payload whose children are left as the producer gave them
payloadRawChildren(reg, data, id) ==
  LET canUpdate == IF "updater" \in DOMAIN data
                   THEN (IF "forceUpdate" \in data.updater THEN "true" ELSE "false")
                   ELSE "undefined"
      keys == (DOMAIN data \cup {"id", "canUpdate"}) \ {"type", "updater"}
  IN [reg |-> reg,
      send |-> [f \in keys |->
                  CASE f = "id" -> id
                    [] f = "canUpdate" -> canUpdate
                    [] OTHER -> data[f]]]

\* send = assign({}, data) with children mapped to ids, id and canUpdate
\* set, type and updater deleted
payload(reg, data, id) ==
  LET hasMap == "children" \in DOMAIN data /\ data.children.kind = "array"
      mapped == IF hasMap THEN mapGetId(reg, data.children.items)
                          ELSE [reg |-> reg, ids |-> <<>>]
      canUpdate == IF "updater" \in DOMAIN data
                   THEN (IF "forceUpdate" \in data.updater THEN "true" ELSE "false")
                   ELSE "undefined"
      keys == (DOMAIN data \cup {"id", "canUpdate"}) \ {"type", "updater"}
  IN [reg |-> mapped.reg,
      send |-> [f \in keys |->
                  CASE f = "id" -> id
                    [] f = "canUpdate" -> canUpdate
                    [] f = "children" ->
                         IF hasMap THEN ArrayChildren(mapped.ids) ELSE data.children
                    [] OTHER -> data[f]]]

\* the children of a data object or of a payload, when they are an array
childItems(d) ==
  IF "children" \in DOMAIN d /\ d.children.kind = "array"
  THEN d.children.items
  ELSE <<>>

\* the history carried, after events that carry sent[i] for the handle
\* handles[i], for every i where handles[i] is an object reference
carry(c, handles, sent) ==
  LET named == {handles[i] : i \in {j \in DOMAIN handles : IsObject(handles[j])}}
  IN [h \in DOMAIN c \cup named |->
        (IF h \in DOMAIN c THEN c[h] ELSE {})
        \cup {sent[i] : i \in {j \in DOMAIN handles : handles[j] = h}}]

-----------------------------------------------------------------------------
(* The state after construction *)

Init ==
  /\ ids = EmptyMap
  /\ reactElements = EmptyMap
  /\ elementData = EmptyMap
  /\ roots = {}
  /\ renderers = EmptyMap
  /\ reactInternals = EmptyMap
  /\ guidCount = 0
  /\ bridge = FALSE
  /\ scrollUpdate = FALSE
  /\ rafQueue = 0
  /\ global = [re |-> Undefined, tmp |-> Undefined]
  /\ hook = [node |-> Undefined, inst |-> Undefined, zero |-> Undefined]
  /\ _prevSelected = Null
  /\ internalsKeys = <<>>
  /\ unmounted = {}
  /\ carried = EmptyMap
  /\ call = [op |-> "constructor"]
  /\ out = <<>>

\* the registry reg becomes the agent's
SetRegistry(reg) ==
  /\ reg.guidCount <= MaxIds
  /\ ids' = reg.ids
  /\ reactElements' = reg.reactElements
  /\ guidCount' = reg.guidCount

-----------------------------------------------------------------------------
(* Calls from the producers *)

setReactInternals(renderer, helpers) ==
  /\ reactInternals' = MapSet(reactInternals, renderer, helpers)
  /\ internalsKeys' = IF renderer \in DOMAIN reactInternals
                      THEN internalsKeys
                      ELSE Append(internalsKeys, renderer)
  /\ call' = [op |-> "setReactInternals", renderer |-> renderer]
  /\ out' = <<>>
  /\ UNCHANGED <<ids, reactElements, elementData, roots, renderers, guidCount,
                 bridge, scrollUpdate, rafQueue, global, hook, _prevSelected,
                 unmounted, carried>>

addBridge ==
  /\ ~bridge
  /\ bridge' = TRUE
  /\ call' = [op |-> "addBridge"]
  /\ out' = <<>>
  /\ UNCHANGED <<ids, reactElements, elementData, roots, renderers,
                 reactInternals, guidCount, scrollUpdate, rafQueue, global, hook,
                 _prevSelected, internalsKeys, unmounted, carried>>

addRoot(renderer, element) ==
  LET a == getId(registry, element)
      id == a.id
  IN /\ SetRegistry(a.reg)
     /\ roots' = roots \cup {id}
     /\ call' = [op |-> "addRoot", renderer |-> renderer, element |-> element]
     /\ out' = emit(bridge, [k |-> "emit", ev |-> "root", id |-> id])
     /\ carried' = carry(carried, <<element>>, <<id>>)
     /\ UNCHANGED <<elementData, renderers, reactInternals, bridge,
                    scrollUpdate, rafQueue, global, hook, _prevSelected,
                    internalsKeys, unmounted>>

onMounted(renderer, component, data) ==
  LET a == getId(registry, component)
      id == a.id
      p == payload(a.reg, data, id)
  IN /\ SetRegistry(p.reg)
     /\ renderers' = MapSet(renderers, id, renderer)
     /\ elementData' = MapSet(elementData, id, data)
     /\ call' = [op |-> "onMounted", renderer |-> renderer,
                 element |-> component, data |-> data]
     /\ out' = emit(bridge, [k |-> "emit", ev |-> "mount", data |-> p.send])
     /\ carried' = carry(carried, <<component>> \o childItems(data),
                         <<id>> \o childItems(p.send))
     /\ UNCHANGED <<roots, reactInternals, bridge, scrollUpdate, rafQueue,
                    global, hook, _prevSelected, internalsKeys, unmounted>>

onUpdated(component, data) ==
  LET a == getId(registry, component)
      id == a.id
      p == payload(a.reg, data, id)
  IN /\ SetRegistry(p.reg)
     /\ elementData' = MapSet(elementData, id, data)
     /\ call' = [op |-> "onUpdated", element |-> component, data |-> data]
     /\ out' = emit(bridge, [k |-> "emit", ev |-> "update", data |-> p.send])
     /\ carried' = carry(carried, <<component>> \o childItems(data),
                         <<id>> \o childItems(p.send))
     /\ UNCHANGED <<roots, renderers, reactInternals, bridge, scrollUpdate,
                    rafQueue, global, hook, _prevSelected, internalsKeys,
                    unmounted>>

\* an onUnmounted that leaves the handle in this.ids
onUnmountedKeepsId(component) ==
  LET a == getId(registry, component)
      id == a.id
  IN /\ SetRegistry(a.reg)
     /\ elementData' = MapDelete(elementData, id)
     /\ roots' = roots \ {id}
     /\ renderers' = MapDelete(renderers, id)
     /\ call' = [op |-> "onUnmounted", element |-> component, id |-> id,
                 known |-> component \in DOMAIN ids]
     /\ out' = emit(bridge, [k |-> "emit", ev |-> "unmount", id |-> id])
     /\ unmounted' = unmounted \cup {id}
     /\ carried' = MapDelete(carried, component)
     /\ UNCHANGED <<reactInternals, bridge, scrollUpdate, rafQueue, global, hook,
                    _prevSelected, internalsKeys>>

onUnmounted(component) ==
  LET a == getId(registry, component)
      id == a.id
  IN /\ SetRegistry([a.reg EXCEPT !.ids = MapDelete(a.reg.ids, component)])
     /\ elementData' = MapDelete(elementData, id)
     /\ roots' = roots \ {id}
     /\ renderers' = MapDelete(renderers, id)
     /\ call' = [op |-> "onUnmounted", element |-> component, id |-> id,
                 known |-> component \in DOMAIN ids]
     /\ out' = emit(bridge, [k |-> "emit", ev |-> "unmount", id |-> id])
     /\ unmounted' = unmounted \cup {id}
     /\ carried' = MapDelete(carried, component)
     /\ UNCHANGED <<reactInternals, bridge, scrollUpdate, rafQueue, global, hook,
                    _prevSelected, internalsKeys>>

-----------------------------------------------------------------------------
(* Scroll-invalidation *)

\* an _onScroll that sets the flag and requests no frame
_onScrollFlagOnly ==
  /\ scrollUpdate' = TRUE
  /\ UNCHANGED rafQueue
  /\ out' = <<>>
  /\ call' = [op |-> "_onScroll"]
  /\ UNCHANGED <<ids, reactElements, elementData, roots, renderers,
                 reactInternals, guidCount, bridge, global, hook,
                 _prevSelected, internalsKeys, unmounted, carried>>

\* an _onScroll that requests a frame whether or not one is pending
_onScrollUnguarded ==
  /\ scrollUpdate' = TRUE
  /\ rafQueue' = rafQueue + 1
  /\ out' = <<[k |-> "call", ev |-> "requestAnimationFrame"]>>
  /\ call' = [op |-> "_onScroll"]
  /\ UNCHANGED <<ids, reactElements, elementData, roots, renderers,
                 reactInternals, guidCount, bridge, global, hook,
                 _prevSelected, internalsKeys, unmounted, carried>>

_onScroll ==
  /\ IF ~scrollUpdate
     THEN /\ scrollUpdate' = TRUE
          /\ rafQueue' = rafQueue + 1
          /\ out' = <<[k |-> "call", ev |-> "requestAnimationFrame"]>>
     ELSE /\ UNCHANGED <<scrollUpdate, rafQueue>>
          /\ out' = <<>>
  /\ call' = [op |-> "_onScroll"]
  /\ UNCHANGED <<ids, reactElements, elementData, roots, renderers,
                 reactInternals, guidCount, bridge, global, hook,
                 _prevSelected, internalsKeys, unmounted, carried>>

\* the browser runs one requested animation-frame callback
_updateScroll ==
  /\ rafQueue > 0
  /\ rafQueue' = rafQueue - 1
  /\ scrollUpdate' = FALSE
  /\ call' = [op |-> "_updateScroll"]
  /\ out' = emit(bridge, [k |-> "emit", ev |-> "refreshMultiOverlay"])
  /\ UNCHANGED <<ids, reactElements, elementData, roots, renderers,
                 reactInternals, guidCount, bridge, global, hook,
                 _prevSelected, internalsKeys, unmounted, carried>>

-----------------------------------------------------------------------------
(* Native lookup through the producers' helpers *)

Thrown == <<"throw", 0>>

\* what a producer's getNativeFromReactElement does:
\*   "absent"  the helpers have no such function
\*   "element" returns an element node      "text" a text node inside an element
\*   "orphan"  a text node with no parent   "null" returns null
\*   "throws"  throws
NativeKinds == {"absent", "element", "text", "orphan", "null", "throws"}

getNativeFromReactElement(helpers, component) ==
  CASE helpers.getNativeFromReactElement = "null" -> Null
    [] helpers.getNativeFromReactElement = "throws" -> Thrown
    [] OTHER -> <<helpers.getNativeFromReactElement, component[2]>>

\* Agent.getNodeForID: a node, Null, or Thrown when the lookup throws
getNodeForID(id) ==
  IF id \notin DOMAIN reactElements
  THEN Null
  ELSE IF id \in DOMAIN renderers
       THEN IF renderers[id] \notin DOMAIN reactInternals
            THEN Thrown   \* reactInternals[renderer] is undefined: a TypeError
            ELSE IF reactInternals[renderers[id]].getNativeFromReactElement # "absent"
                 THEN getNativeFromReactElement(reactInternals[renderers[id]],
                                                reactElements[id])
                 ELSE Null
       ELSE Null

\* the handler ended by an exception that it did not catch
throw == <<[k |-> "throw", ev |-> "exception"]>>

\* a handler the bridge runs for an inbound event that changes no agent state
Handler(op, effects) ==
  /\ bridge
  /\ call' = op
  /\ out' = effects
  /\ UNCHANGED <<ids, reactElements, elementData, roots, renderers,
                 reactInternals, guidCount, bridge, scrollUpdate, rafQueue,
                 _prevSelected, internalsKeys, unmounted, carried>>

-----------------------------------------------------------------------------
(* Events received from the frontend *)

capabilities == [scroll |-> TRUE, dom |-> TRUE, editTextContent |-> FALSE]

\* a handshake that signals 'connected' before it answers
requestCapabilitiesConnectedFirst ==
  /\ Handler([op |-> "requestCapabilities"],
             emit(bridge, [k |-> "emit", ev |-> "connected"])
             \o <<[k |-> "send", ev |-> "capabilities", caps |-> capabilities]>>)
  /\ UNCHANGED <<global, hook>>

requestCapabilities ==
  /\ Handler([op |-> "requestCapabilities"],
             <<[k |-> "send", ev |-> "capabilities", caps |-> capabilities]>>
             \o emit(bridge, [k |-> "emit", ev |-> "connected"]))
  /\ UNCHANGED <<global, hook>>

\* hideHighlight, startInspecting, stopInspecting, shutdown, bananaslugchange
\* and colorizerchange are re-emitted on the agent as they are
PassThrough == {"hideHighlight", "startInspecting", "stopInspecting",
                "shutdown", "bananaslugchange", "colorizerchange"}

forward(ev) ==
  /\ Handler([op |-> "forward", ev |-> ev], emit(bridge, [k |-> "emit", ev |-> ev]))
  /\ UNCHANGED <<global, hook>>

\* Agent.highlight: what it does, in order
highlightEffects(id) ==
  LET node == getNodeForID(id) IN
  IF node = Thrown THEN throw
  ELSE IF id \in DOMAIN elementData /\ Truthy(node)
       THEN emit(bridge, [k |-> "emit", ev |-> "highlight", node |-> node,
                          name |-> elementData[id].name])
       ELSE <<>>

highlight(id) ==
  /\ Handler([op |-> "highlight", id |-> id], highlightEffects(id))
  /\ UNCHANGED <<global, hook>>

\* the forEach of highlightMany: the nodes pushed, and whether a lookup threw
RECURSIVE collectNodes(_)
collectNodes(idList) ==
  IF idList = <<>>
  THEN [nodes |-> <<>>, thrown |-> FALSE]
  ELSE LET node == getNodeForID(Head(idList)) IN
       IF node = Thrown
       THEN [nodes |-> <<>>, thrown |-> TRUE]
       ELSE LET rest == collectNodes(Tail(idList)) IN
            [nodes |-> (IF Truthy(node) THEN <<node>> ELSE <<>>) \o rest.nodes,
             thrown |-> rest.thrown]

highlightManyEffects(idList) ==
  LET c == collectNodes(idList) IN
  IF c.thrown THEN throw
  ELSE IF Len(c.nodes) # 0
       THEN emit(bridge, [k |-> "emit", ev |-> "highlightMany", nodes |-> c.nodes])
       ELSE <<>>

highlightMany(idList) ==
  /\ Handler([op |-> "highlightMany", ids |-> idList], highlightManyEffects(idList))
  /\ UNCHANGED <<global, hook>>

\* node.nodeType === Node.ELEMENT_NODE ? node : node.parentElement
elementOf(node) ==
  CASE node[1] = "element" -> node
    [] node[1] = "text" -> <<"element", node[2]>>
    [] OTHER -> Null

\* scroll is the scroll capability the resolved element has:
\* "both", only "scrollIntoViewIfNeeded", only "scrollIntoView", or "none"
ScrollKinds == {"both", "scrollIntoViewIfNeeded", "scrollIntoView", "none"}

\* a scrollToNode that highlights before it scrolls, and scrolls whatever
\* the lookup gave
scrollToNodeEffectsHighlightFirst(id, scroll) ==
  LET node == getNodeForID(id) IN
  IF node = Thrown THEN throw
  ELSE highlightEffects(id)
       \o (IF scroll = "none" THEN <<>>
           ELSE <<[k |-> "call", ev |-> "scrollIntoView", node |-> node]>>)

scrollToNodeEffects(id, scroll) ==
  LET node == getNodeForID(id) IN
  IF node = Thrown THEN throw
  ELSE IF ~Truthy(node)
  THEN <<[k |-> "warn", ev |-> "unable to get the node for scrolling"]>>
  ELSE IF ~Truthy(elementOf(node))
  THEN <<[k |-> "warn", ev |-> "unable to get the element for scrolling"]>>
  ELSE (IF scroll \in {"both", "scrollIntoViewIfNeeded"}
        THEN <<[k |-> "call", ev |-> "scrollIntoViewIfNeeded",
                node |-> elementOf(node)]>>
        ELSE IF scroll = "scrollIntoView"
        THEN <<[k |-> "call", ev |-> "scrollIntoView", node |-> elementOf(node)]>>
        ELSE <<>>)
       \o highlightEffects(id)

scrollToNode(id, scroll) ==
  /\ Handler([op |-> "scrollToNode", id |-> id, scroll |-> scroll],
             scrollToNodeEffects(id, scroll))
  /\ UNCHANGED <<global, hook>>

changeTextContent(id, text) ==
  /\ LET node == getNodeForID(id) IN
     Handler([op |-> "changeTextContent", id |-> id, text |-> text],
             IF node = Thrown THEN throw
             ELSE IF ~Truthy(node) THEN <<>>
             ELSE <<[k |-> "set", ev |-> "textContent", node |-> node, text |-> text]>>)
  /\ UNCHANGED <<global, hook>>

putSelectedNode(id) ==
  LET node == getNodeForID(id) IN
  /\ Handler([op |-> "putSelectedNode", id |-> id],
             IF node = Thrown THEN throw ELSE <<>>)
  /\ hook' = IF node = Thrown THEN hook ELSE [hook EXCEPT !.node = node]
  /\ UNCHANGED global

putSelectedInstance(id) ==
  /\ Handler([op |-> "putSelectedInstance", id |-> id], <<>>)
  /\ hook' = [hook EXCEPT !.inst =
                IF id \in DOMAIN elementData
                   /\ "publicInstance" \in DOMAIN elementData[id]
                THEN elementData[id].publicInstance
                ELSE Null]
  /\ UNCHANGED global

\* the listener the constructor registers for 'selected'
selected(id) ==
  /\ Handler([op |-> "selected", id |-> id],
             emit(bridge, [k |-> "emit", ev |-> "selected", id |-> id]))
  /\ global' = IF id \in DOMAIN elementData
                  /\ "publicInstance" \in DOMAIN elementData[id]
               THEN [global EXCEPT !.re = elementData[id].publicInstance]
               ELSE global
  /\ UNCHANGED hook

\* what a producer's getReactElementFromNative does for an inspected node:
\*   "absent"  the helpers have no such function (the call is a TypeError)
\*   "null"    returns null          "throws"  throws
\*   "obj1"    returns Obj(1)        "obj2"    returns Obj(2)
FromNativeKinds == {"absent", "null", "throws", "obj1", "obj2"}

getReactElementFromNative(helpers, node) ==
  CASE helpers.getReactElementFromNative = "null" -> Null
    [] helpers.getReactElementFromNative = "obj1" -> Obj(1)
    [] helpers.getReactElementFromNative = "obj2" -> Obj(2)
    [] OTHER -> Thrown

\* the loop of Agent.getIDForNode over the renderers left in keys; component
\* is the variable the loop assigns, which a caught exception leaves as it was
RECURSIVE getIDForNodeLoop(_, _, _, _)
getIDForNodeLoop(reg, keys, node, component) ==
  IF keys = <<>>
  THEN [reg |-> reg, id |-> Null]
  ELSE LET r == getReactElementFromNative(reactInternals[Head(keys)], node)
           c == IF r = Thrown THEN component ELSE r
       IN IF Truthy(c)
          THEN getId(reg, c)
          ELSE getIDForNodeLoop(reg, Tail(keys), node, c)

\* a lookup that stops at the first producer, whatever it answers
getIDForNodeFirstOnly(reg, node) ==
  IF internalsKeys = <<>>
  THEN [reg |-> reg, id |-> Null]
  ELSE getIDForNodeLoop(reg, <<Head(internalsKeys)>>, node, Undefined)

\* Agent.getIDForNode, on the registry reg: the registry afterwards and the id
getIDForNode(reg, node) == getIDForNodeLoop(reg, internalsKeys, node, Undefined)

\* the effects of this.emit('setSelection', {id, quiet})
setSelection(id, quiet) ==
  emit(bridge, [k |-> "emit", ev |-> "setSelection", id |-> id, quiet |-> quiet])

\* a handler that changes the registry and nothing else of the agent
Registers(reg) ==
  /\ SetRegistry(reg)
  /\ UNCHANGED <<elementData, roots, renderers, reactInternals, bridge,
                 scrollUpdate, rafQueue, global, internalsKeys, unmounted,
                 carried>>

selectFromDOMNode(node, quiet) ==
  LET a == getIDForNode(registry, node) IN
  /\ Registers(a.reg)
  /\ call' = [op |-> "selectFromDOMNode", node |-> node, quiet |-> quiet]
  /\ out' = IF ~Truthy(a.id) THEN <<>> ELSE setSelection(a.id, quiet)
  /\ UNCHANGED <<hook, _prevSelected>>

selectFromReactInstance(instance, quiet) ==
  LET a == getId(registry, instance) IN
  /\ Registers(a.reg)
  /\ call' = [op |-> "selectFromReactInstance", instance |-> instance,
              quiet |-> quiet]
  /\ out' = IF ~Truthy(a.id)
            THEN <<[k |-> "log", ev |-> "no instance id"]>>
            ELSE setSelection(a.id, quiet)
  /\ UNCHANGED <<hook, _prevSelected>>

\* the page's inspector makes node the inspected one: hook.$0 = node
inspect(node) ==
  /\ hook' = [hook EXCEPT !.zero = node]
  /\ call' = [op |-> "inspect", node |-> node]
  /\ out' = <<>>
  /\ UNCHANGED <<ids, reactElements, elementData, roots, renderers,
                 reactInternals, guidCount, bridge, scrollUpdate, rafQueue,
                 global, _prevSelected, internalsKeys, unmounted, carried>>

\* a poll that does not remember what it saw
checkSelectionForgetful ==
  LET newSelected == hook.zero
      a == getIDForNode(registry, newSelected)
      select == newSelected # _prevSelected /\ newSelected # hook.node
  IN /\ bridge
     /\ UNCHANGED _prevSelected
     /\ Registers(IF select THEN a.reg ELSE registry)
     /\ call' = [op |-> "checkSelection", selected |-> newSelected,
                 prev |-> _prevSelected, sent |-> hook.node]
     /\ out' = IF select /\ Truthy(a.id) THEN setSelection(a.id, TRUE) ELSE <<>>
     /\ UNCHANGED hook

\* the listener addBridge registers for 'checkSelection'
checkSelection ==
  LET newSelected == hook.zero
      a == getIDForNode(registry, newSelected)
      select == newSelected # _prevSelected /\ newSelected # hook.node
  IN /\ bridge
     /\ _prevSelected' = newSelected
     /\ Registers(IF select THEN a.reg ELSE registry)
     /\ call' = [op |-> "checkSelection", selected |-> newSelected,
                 prev |-> _prevSelected, sent |-> hook.node]
     /\ out' = IF select /\ Truthy(a.id) THEN setSelection(a.id, TRUE) ELSE <<>>
     /\ UNCHANGED hook

\* what an updater slot does when called is the producer's business: the
\* call is recorded
updaterCall(slot, path, value) ==
  <<[k |-> "call", ev |-> slot, path |-> path, value |-> value]>>

_setPropsEffects(id, path, value) ==
  IF id \in DOMAIN elementData /\ "updater" \in DOMAIN elementData[id]
     /\ "setInProps" \in elementData[id].updater
  THEN updaterCall("setInProps", path, value)
  ELSE <<[k |-> "warn", ev |-> "trying to set props on a component that doesn't support it"]>>

_setProps(id, path, value) ==
  /\ Handler([op |-> "setProps", id |-> id, path |-> path, value |-> value],
             _setPropsEffects(id, path, value))
  /\ UNCHANGED <<global, hook>>

\* a _setState that does not look for the setInState slot
_setStateEffectsNoSlotCheck(id, path, value) ==
  IF id \in DOMAIN elementData /\ "updater" \in DOMAIN elementData[id]
  THEN updaterCall("setInState", path, value)
  ELSE <<[k |-> "warn", ev |-> "trying to set state on a component that doesn't support it"]>>

_setStateEffects(id, path, value) ==
  IF id \in DOMAIN elementData /\ "updater" \in DOMAIN elementData[id]
     /\ "setInState" \in elementData[id].updater
  THEN updaterCall("setInState", path, value)
  ELSE <<[k |-> "warn", ev |-> "trying to set state on a component that doesn't support it"]>>

_setState(id, path, value) ==
  /\ Handler([op |-> "setState", id |-> id, path |-> path, value |-> value],
             _setStateEffects(id, path, value))
  /\ UNCHANGED <<global, hook>>

_setContextEffects(id, path, value) ==
  IF id \in DOMAIN elementData /\ "updater" \in DOMAIN elementData[id]
     /\ "setInContext" \in elementData[id].updater
  THEN updaterCall("setInContext", path, value)
  ELSE <<[k |-> "warn", ev |-> "trying to set state on a component that doesn't support it"]>>

_setContext(id, path, value) ==
  /\ Handler([op |-> "setContext", id |-> id, path |-> path, value |-> value],
             _setContextEffects(id, path, value))
  /\ UNCHANGED <<global, hook>>

\* obj[attr] for the properties the model gives a data object a value for
Prop(data, attr) == IF attr \in DOMAIN data THEN data[attr] ELSE Undefined

\* path.reduce((obj, attr) => obj ? obj[attr] : null, v) below the data
\* object: the values are strings and instances, whose properties are
\* undefined
RECURSIVE getInValue(_, _)
getInValue(v, path) ==
  IF path = <<>> THEN v
  ELSE getInValue(IF Truthy(v) THEN Undefined ELSE Null, Tail(path))

\* getIn(base, path), for a non-empty path of the keys name, publicInstance
\* and keys the data object lacks
getIn(base, path) == getInValue(Prop(base, Head(path)), Tail(path))

\* path is the string 'instance' or an array of keys
InstancePath == [instance |-> TRUE, keys |-> <<>>]
KeyPath(keys) == [instance |-> FALSE, keys |-> keys]

_makeGlobal(id, path) ==
  /\ IF id \notin DOMAIN elementData
     THEN /\ Handler([op |-> "makeGlobal", id |-> id, path |-> path], <<>>)
          /\ UNCHANGED global
     ELSE LET value == IF path.instance
                       THEN Prop(elementData[id], "publicInstance")
                       ELSE getIn(elementData[id], path.keys)
          IN /\ Handler([op |-> "makeGlobal", id |-> id, path |-> path],
                        <<[k |-> "log", ev |-> "$tmp =", value |-> value]>>)
             /\ global' = [global EXCEPT !.tmp = value]
  /\ UNCHANGED hook

-----------------------------------------------------------------------------
(* The inputs the environment draws from *)

\* the identities guid() can have returned, and one it never returns
IdChoices == {guid(n) : n \in 0..(MaxIds - 1)} \cup {Str(1)}

HelperChoices ==
  {[getNativeFromReactElement |-> kind, getReactElementFromNative |-> "absent"] :
     kind \in NativeKinds}

\* helpers that differ in what getReactElementFromNative does
ReverseHelperChoices ==
  {[getNativeFromReactElement |-> "element", getReactElementFromNative |-> kind] :
     kind \in FromNativeKinds}

\* the values that are not object references: '', a string, 0, a number,
\* false, true, undefined, null
Primitives == {Str(0), Str(1), Num(0), Num(1), Bool(0), Bool(1), Undefined, Null}

NativeNodes == {<<"element", 1>>, <<"element", 2>>}

\* a leaf, and a parent whose children are an object handle and a string
LeafData == mkData(ArrayChildren(<<>>), NoUpdater, Undefined)
ParentData == mkData(ArrayChildren(<<Obj(2), Str(1)>>),
                     Updater({"forceUpdate"}), <<"inst", 1>>)

\* a node whose children are a string
TextData == mkData(TextChildren, Updater({}), Undefined)

\* a node whose children are values that are not object references
PrimitiveData ==
  mkData(ArrayChildren(<<Str(0), Str(1), Num(0), Num(1), Bool(0), Bool(1),
                         Undefined, Null>>),
         NoUpdater, Undefined)

\* data that differ in the updater slots and the public instance they have
CommandData ==
  {mkData(NoChildren, NoUpdater, Undefined),
   mkData(NoChildren, Updater({}), <<"inst", 1>>),
   mkData(NoChildren, Updater({"setInProps", "setInContext"}), <<"inst", 2>>),
   mkData(NoChildren, Updater({"setInState", "forceUpdate"}), Undefined)}

Paths == {<<"a", "b">>}
GlobalPaths == {InstancePath, KeyPath(<<"name">>), KeyPath(<<"publicInstance", "x">>),
                KeyPath(<<"nope", "x">>)}

\* the producers' calls, with renderers R, handles H and data D
Lifecycle(R, H, D) ==
  \/ addBridge
  \/ \E r \in R, h \in H : addRoot(r, h)
  \/ \E r \in R, h \in H, d \in D : onMounted(r, h, d)
  \/ \E h \in H, d \in D : onUpdated(h, d)
  \/ \E h \in H : onUnmounted(h)

Scroll ==
  \/ _onScroll
  \/ _updateScroll

Handshake ==
  \/ requestCapabilities
  \/ \E ev \in PassThrough : forward(ev)

\* the commands that resolve an identity to a native node
LookupCommands ==
  \/ \E id \in IdChoices : highlight(id)
  \/ \E i, j \in IdChoices : highlightMany(<<>>) \/ highlightMany(<<i>>) \/ highlightMany(<<i, j>>)
  \/ \E id \in IdChoices, sc \in ScrollKinds : scrollToNode(id, sc)
  \/ \E id \in IdChoices : changeTextContent(id, Str(3))

\* the commands that read the stored data of an identity
StoreCommands ==
  \/ \E id \in IdChoices : putSelectedInstance(id)
  \/ \E id \in IdChoices : selected(id)
  \/ \E id \in IdChoices, path \in Paths : _setProps(id, path, Str(3))
  \/ \E id \in IdChoices, path \in Paths : _setState(id, path, Str(3))
  \/ \E id \in IdChoices, path \in Paths : _setContext(id, path, Str(3))
  \/ \E id \in IdChoices, path \in GlobalPaths : _makeGlobal(id, path)

\* the lifecycle of identities: every producer call, with or without a bridge
Next == Lifecycle(Renderers, ObjHandles, {LeafData, ParentData, TextData})

Spec == Init /\ [][Next]_vars

\* the handshake and the scroll refresh, beside the lifecycle of one leaf
NextChannel == Lifecycle({"r1"}, {Obj(1)}, {LeafData}) \/ Scroll \/ Handshake

SpecChannel == Init /\ [][NextChannel]_vars

\* the lookup commands of the frontend, on nodes mounted by renderer r1,
\* whose helpers are registered, and by renderer r2, whose helpers never are
NextLookup ==
  \/ \E hs \in HelperChoices : setReactInternals("r1", hs)
  \/ addBridge
  \/ \E r \in Renderers, h \in ObjHandles : onMounted(r, h, ParentData)
  \/ \E h \in ObjHandles : onUnmounted(h)
  \/ LookupCommands

SpecLookup == Init /\ [][NextLookup]_vars

\* the store commands of the frontend, on nodes whose data differ in the
\* updater slots and the public instance they have
NextStore ==
  \/ addBridge
  \/ \E d \in CommandData : onMounted("r1", Obj(1), d)
  \/ \E d \in CommandData : onUpdated(Obj(1), d)
  \/ onUnmounted(Obj(1))
  \/ StoreCommands

SpecStore == Init /\ [][NextStore]_vars

\* the inspected-node slots and the selection poll, on one node
NextSelection ==
  \/ \E hs \in HelperChoices \cup ReverseHelperChoices : setReactInternals("r1", hs)
  \/ addBridge
  \/ \E r \in Renderers : onMounted(r, Obj(1), ParentData)
  \/ onUnmounted(Obj(1))
  \/ \E id \in IdChoices : putSelectedNode(id)
  \/ \E node \in NativeNodes : inspect(node)
  \/ checkSelection

SpecSelection == Init /\ [][NextSelection]_vars

\* the resolution of nodes and instances to identities, with two producers
\* whose helpers are registered in either order
NextResolve ==
  \/ \E r \in Renderers, hs \in ReverseHelperChoices : setReactInternals(r, hs)
  \/ addBridge
  \/ onMounted("r1", Obj(1), PrimitiveData)
  \/ onUnmounted(Obj(1))
  \/ \E node \in NativeNodes, quiet \in BOOLEAN : selectFromDOMNode(node, quiet)
  \/ \E instance \in Primitives \cup ObjHandles, quiet \in BOOLEAN :
        selectFromReactInstance(instance, quiet)
  \/ \E id \in IdChoices : selected(id)

SpecResolve == Init /\ [][NextResolve]_vars

\* identities over the whole life of two handles: the producers' calls and
\* the selection of a node or an instance, with one producer
NextTerminal ==
  \/ Lifecycle({"r1"}, ObjHandles, {ParentData})
  \/ \E hs \in {h \in ReverseHelperChoices :
                   h.getReactElementFromNative \in {"obj1", "obj2"}} :
        setReactInternals("r1", hs)
  \/ \E node \in NativeNodes : selectFromDOMNode(node, FALSE)
  \/ \E h \in ObjHandles : selectFromReactInstance(h, FALSE)

SpecTerminal == Init /\ [][NextTerminal]_vars

\* the scroll refresh when the browser runs every frame callback it was
\* asked for
SpecChannelFair == SpecChannel /\ WF_vars(_updateScroll)

-----------------------------------------------------------------------------
(* Properties *)

Sends(effects) == SelectSeq(effects, LAMBDA e : e.k = "send")
Emits(effects, ev) == SelectSeq(effects, LAMBDA e : e.k = "emit" /\ e.ev = ev)

ProducerOps == {"addRoot", "onMounted", "onUpdated", "onUnmounted"}

\* C1, in every state: getId of a registered handle returns its identity and
\* changes nothing, and no two registered handles have the same identity
C1_State ==
  /\ \A h \in DOMAIN ids : getId(registry, h) = [reg |-> registry, id |-> ids[h]]
  /\ \A h1, h2 \in DOMAIN ids : h1 # h2 => ids[h1] # ids[h2]

\* C1, in every step: a registered handle keeps its identity unless the step
\* is onUnmounted of that handle
C1_Step ==
  \A h \in DOMAIN ids :
    \/ call'.op = "onUnmounted" /\ call'.element = h
    \/ h \in DOMAIN ids' /\ ids'[h] = ids[h] /\ getId(registry', h).id = ids[h]

\* C1: the identity of an object handle is the same on every getId from its
\* first resolution to its onUnmounted, and distinct registered handles never
\* share an identity
C1_IdentityStable == [](C1_State) /\ [][C1_Step]_vars

\* C1 witness: two handles are registered and a registered one was updated
\* again under the identity it had
C1_Witness ==
  /\ Cardinality(DOMAIN ids) = 2
  /\ call.op = "onUpdated"
  /\ guidCount = 2
  /\ out[1].data.id = ids[call.element]

\* C2: after onUnmounted(H), where H had identity I, the element store, the
\* root set and the renderer attribution have no entry for I, and the next
\* getId(H) returns an identity other than I
C2_UnmountForgets ==
  call.op = "onUnmounted" =>
    /\ call.id \notin DOMAIN elementData
    /\ call.id \notin roots
    /\ call.id \notin DOMAIN renderers
    /\ getId(registry, call.element).id # call.id

\* C2 witness: a handle that was registered has been unmounted
C2_Witness ==
  /\ call.op = "onUnmounted"
  /\ call.known
  /\ call.id \in DOMAIN reactElements
  /\ reactElements[call.id] = call.element

ProducerEvent(op) ==
  CASE op = "addRoot" -> "root"
    [] op = "onMounted" -> "mount"
    [] op = "onUpdated" -> "update"
    [] op = "onUnmounted" -> "unmount"

\* C4, in every state: with a bridge, the producer call that ran last made
\* exactly one send, of its own event, carrying the identity of its handle
C4_State ==
  (bridge /\ call.op \in ProducerOps) =>
    LET s == Sends(out) IN
    /\ Len(s) = 1
    /\ s[1].ev = ProducerEvent(call.op)
    /\ out[1].k = "emit" /\ out[1].ev = s[1].ev /\ out[2] = s[1]
    /\ CASE call.op = "addRoot" -> s[1].id = ids[call.element]
         [] call.op = "onUnmounted" -> s[1].id = call.id
         [] OTHER -> s[1].data.id = ids[call.element]

\* C4, in every step: onMounted(H) right after addRoot(H) sends mount with
\* the identity root was sent with
C4_Step ==
  (bridge /\ call.op = "addRoot" /\ call'.op = "onMounted"
     /\ call'.element = call.element) =>
    /\ Sends(out)[1].ev = "root"
    /\ Sends(out')[1].ev = "mount"
    /\ Sends(out')[1].data.id = Sends(out)[1].id

\* C4: with a bridge attached every producer call makes exactly one send, of
\* root, mount, update or unmount, and the sends are made in the order of the
\* calls: addRoot(H) then onMounted(H) sends root and then mount, both with
\* H's identity
C4_OneSendPerCall == [](C4_State) /\ [][C4_Step]_vars

\* C4 witness: with a bridge, a handle already registered as a root was
\* mounted
C4_Witness ==
  /\ bridge
  /\ call.op = "onMounted"
  /\ ids[call.element] \in roots
  /\ Len(Sends(out)) = 1

\* C5: a sent unmount is followed at once by the one forget of the same
\* identity, a forget follows at once the sent unmount of its identity, and
\* with a bridge every onUnmounted sends its unmount
C5_ForgetFollowsUnmount ==
  /\ \A i \in DOMAIN out :
       /\ (out[i].k = "send" /\ out[i].ev = "unmount") =>
            /\ i < Len(out)
            /\ out[i + 1].k = "forget"
            /\ out[i + 1].id = out[i].id
            /\ Cardinality({j \in DOMAIN out : out[j].k = "forget"}) = 1
       /\ out[i].k = "forget" =>
            /\ i > 1
            /\ out[i - 1].k = "send"
            /\ out[i - 1].ev = "unmount"
            /\ out[i - 1].id = out[i].id
  /\ (bridge /\ call.op = "onUnmounted") =>
       \E i \in DOMAIN out : out[i].k = "send" /\ out[i].ev = "unmount"

\* C5 witness: with a bridge, a registered handle was unmounted and its
\* identity forgotten
C5_Witness ==
  /\ bridge
  /\ call.op = "onUnmounted"
  /\ call.known
  /\ Len(out) = 3
  /\ out[3].k = "forget"

\* C6: 'connected' is emitted only by the handler of requestCapabilities,
\* which sends the capabilities once and then emits 'connected' once
C6_ConnectedAfterCapabilities ==
  /\ \A i \in DOMAIN out : out[i].ev = "connected" => call.op = "requestCapabilities"
  /\ call.op = "requestCapabilities" =>
       /\ Len(out) = 2
       /\ out[1].k = "send" /\ out[1].ev = "capabilities"
       /\ out[1].caps = capabilities
       /\ out[2].k = "emit" /\ out[2].ev = "connected"

\* C6 witness: the handshake has run
C6_Witness == call.op = "requestCapabilities" /\ Len(out) = 2

\* C7, in every state: at most one frame callback is requested, and one is
\* requested exactly when the flag is set
C7_State == rafQueue <= 1 /\ (scrollUpdate <=> rafQueue = 1)

\* C7, in every step: a scroll requests a frame only when none is pending,
\* and the frame callback emits refreshMultiOverlay once
C7_Step ==
  /\ call'.op = "_onScroll" =>
       IF scrollUpdate
       THEN rafQueue' = rafQueue /\ out' = <<>>
       ELSE rafQueue' = rafQueue + 1 /\ Len(out') = 1
            /\ out'[1].ev = "requestAnimationFrame"
  /\ call'.op = "_updateScroll" =>
       /\ Len(Emits(out', "refreshMultiOverlay")) = 1
       /\ rafQueue' = 0
       /\ ~scrollUpdate'

\* C7: at most one refresh is pending; the first scroll while none is pending
\* requests one frame, further scrolls before it runs request nothing, and
\* the frame emits refreshMultiOverlay exactly once
C7_SingleFlight == [](C7_State) /\ [][C7_Step]_vars

\* C7 witness: a scroll arrived while a refresh was pending
C7_Witness == call.op = "_onScroll" /\ out = <<>> /\ rafQueue = 1

\* the resolvable identities of a list, as native nodes, in the list's order
RECURSIVE ResolvedNodes(_)
ResolvedNodes(idList) ==
  IF idList = <<>> THEN <<>>
  ELSE LET node == getNodeForID(Head(idList)) IN
       (IF node # Thrown /\ Truthy(node) THEN <<node>> ELSE <<>>)
       \o ResolvedNodes(Tail(idList))

\* C8: highlightMany(ids) emits no highlightMany when no id resolves to a
\* native node, and otherwise emits one whose payload is the nodes of the
\* resolvable ids in the order of ids
C8_HighlightManyResolved ==
  call.op = "highlightMany" =>
    LET want == ResolvedNodes(call.ids)
        got == Emits(out, "highlightMany")
    IN IF want = <<>>
       THEN got = <<>>
       ELSE Len(got) = 1 /\ got[1].nodes = want

SetOps == {"setProps", "setState", "setContext"}

SlotOf(op) ==
  CASE op = "setProps" -> "setInProps"
    [] op = "setState" -> "setInState"
    [] op = "setContext" -> "setInContext"

\* C9, in every state: the set command that ran last called the matching
\* slot once, with its path and value, when the stored data has it, and
\* otherwise called nothing and threw nothing
C9_State ==
  call.op \in SetOps =>
    IF /\ call.id \in DOMAIN elementData
       /\ "updater" \in DOMAIN elementData[call.id]
       /\ SlotOf(call.op) \in elementData[call.id].updater
    THEN out = <<[k |-> "call", ev |-> SlotOf(call.op),
                  path |-> call.path, value |-> call.value]>>
    ELSE \A i \in DOMAIN out : out[i].k \notin {"call", "throw"}

\* C9, in every step: a set command leaves the store and the registry as
\* they were
C9_Step ==
  call'.op \in SetOps =>
    UNCHANGED <<ids, reactElements, elementData, roots, renderers, guidCount>>

\* C9: setProps, setState and setContext on an identity with no snapshot, no
\* updater or no matching slot call no updater function, change nothing and
\* do not throw; with the slot, it is called once with the path and value
C9_SetNeedsSlot == [](C9_State) /\ [][C9_Step]_vars

\* C9 witness: setState ran on a node whose updater has no setInState
C9_Witness ==
  /\ call.op = "setState"
  /\ call.id \in DOMAIN elementData
  /\ "updater" \in DOMAIN elementData[call.id]
  /\ "setInState" \notin elementData[call.id].updater
  /\ out[1].k = "warn"

\* C10: no inbound command that takes an identity ends by an exception
C10_NoException ==
  call.op \in {"highlight", "highlightMany", "scrollToNode", "changeTextContent",
               "putSelectedNode", "putSelectedInstance", "makeGlobal", "selected"} =>
    \A i \in DOMAIN out : out[i].k # "throw"

\* C11, in every state: getId of a value that is not an object reference
\* returns the value and leaves the registry as it is, no such value is a key
\* or an entry of the registry, and a mount sends such children as they are
C11_State ==
  /\ \A X \in Primitives : getId(registry, X) = [reg |-> registry, id |-> X]
  /\ \A h \in DOMAIN ids : h \notin Primitives
  /\ \A id \in DOMAIN reactElements :
       id \notin Primitives /\ reactElements[id] \notin Primitives
  /\ (call.op = "onMounted" /\ call.data = PrimitiveData) =>
       childItems(out[1].data) = childItems(call.data)

\* C11, in every step: selectFromReactInstance of a value that is not an
\* object reference changes neither direction of the registry, and the
\* identity it selects, when it selects, is the value itself
C11_Step ==
  (call'.op = "selectFromReactInstance" /\ call'.instance \in Primitives) =>
    /\ UNCHANGED <<ids, reactElements, guidCount>>
    /\ \A i \in DOMAIN out' :
         out'[i].ev \in {"setSelection", "select"} => out'[i].id = call'.instance

\* C11: for every value X that is not an object reference (a string, a
\* number, a boolean, undefined, null) getId(X) returns X and adds no entry
\* to either direction of the registry
C11_PrimitivesPassThrough == [](C11_State) /\ [][C11_Step]_vars

\* C11 witness: a node whose children are eight such values was mounted, an
\* identity was allocated for the node and the children were sent unchanged
C11_Witness ==
  /\ call.op = "onMounted"
  /\ call.data = PrimitiveData
  /\ guidCount = 1
  /\ Len(childItems(out[1].data)) = 8
  /\ childItems(out[1].data)[8] = Null

\* C12: the payload of a mount or an update has the identity of the handle as
\* id, has neither a type nor an updater field, and has canUpdate true when
\* the raw data has an updater with forceUpdate and false in every other
\* case, the case of data with no updater included
C12_PayloadShape ==
  call.op \in {"onMounted", "onUpdated"} =>
    LET send == out[1].data IN
    /\ send.id = ids[call.element]
    /\ "type" \notin DOMAIN send
    /\ "updater" \notin DOMAIN send
    /\ send.canUpdate = IF "updater" \in DOMAIN call.data
                           /\ "forceUpdate" \in call.data.updater
                        THEN "true"
                        ELSE "false"

\* the element scrollToNode(id) scrolls: the native node of id, or the
\* parent of a text node; Null when there is none
C13_Element(id) ==
  IF /\ id \in DOMAIN reactElements
     /\ id \in DOMAIN renderers
     /\ renderers[id] \in DOMAIN reactInternals
     /\ reactInternals[renderers[id]].getNativeFromReactElement \in {"element", "text"}
  THEN <<"element", reactElements[id][2]>>
  ELSE Null

\* C13: scrollToNode(id) calls no scroll function and emits no highlight when
\* the native node of id is not resolved or has no element; when there is an
\* element, it calls scrollIntoViewIfNeeded if the element has it, else
\* scrollIntoView if the element has that, on that element and once, and the
\* highlight of id is emitted after the call
C13_ScrollThenHighlight ==
  call.op = "scrollToNode" =>
    LET element == C13_Element(call.id)
        calls == {i \in DOMAIN out : out[i].k = "call"}
        highlights == {i \in DOMAIN out : out[i].ev = "highlight"}
    IN IF element = Null
       THEN calls = {} /\ highlights = {}
       ELSE /\ calls = IF call.scroll = "none" THEN {} ELSE {1}
            /\ call.scroll \in {"both", "scrollIntoViewIfNeeded"} =>
                 out[1] = [k |-> "call", ev |-> "scrollIntoViewIfNeeded",
                           node |-> element]
            /\ call.scroll = "scrollIntoView" =>
                 out[1] = [k |-> "call", ev |-> "scrollIntoView", node |-> element]
            /\ \E i \in highlights : out[i].k = "emit"
            /\ \A i \in highlights : \A j \in calls : j < i

\* C13 witness: an element that has both scroll functions was scrolled with
\* scrollIntoViewIfNeeded and then highlighted; the node of the identity is
\* a text node, so the element is its parent
C13_Witness ==
  /\ call.op = "scrollToNode"
  /\ call.scroll = "both"
  /\ Len(out) = 2
  /\ out[1].ev = "scrollIntoViewIfNeeded"
  /\ out[2].k = "emit" /\ out[2].ev = "highlight" /\ out[2].node[1] = "text"

\* C13 witness of the other case: the lookup gave no node, and the handler
\* only warned
C13_WitnessUnresolved ==
  /\ call.op = "scrollToNode"
  /\ C13_Element(call.id) = Null
  /\ call.id \in DOMAIN renderers
  /\ Len(out) = 1 /\ out[1].k = "warn"

\* C14: after onUnmounted(H) the identity of H is in neither direction of
\* the registry, and the map from identities to handles has entries only for
\* the handles that are registered
C14_DestroyedTogether ==
  /\ call.op = "onUnmounted" =>
       /\ \A h \in DOMAIN ids : ids[h] # call.id
       /\ call.id \notin DOMAIN reactElements
  /\ \A id \in DOMAIN reactElements :
       /\ reactElements[id] \in DOMAIN ids
       /\ ids[reactElements[id]] = id

\* the identities that the events and sends in effects carry: the id of
\* root, unmount, setSelection and select, the id and the children of mount
\* and update
IdsCarried(effects) ==
  UNION {IF effects[i].ev \in {"root", "unmount", "setSelection", "select"}
         THEN {effects[i].id}
         ELSE IF effects[i].ev \in {"mount", "update"}
         THEN {effects[i].data.id}
              \cup {childItems(effects[i].data)[j] :
                      j \in DOMAIN childItems(effects[i].data)}
         ELSE {} : i \in DOMAIN effects}

\* C15: once unmount has been emitted for an identity, no handler that runs
\* later emits or sends a root, mount, update, unmount or setSelection with
\* that identity as id, or a mount or update that lists it among the
\* children, whatever the handler and whatever handle it is given
C15_UnmountIsTerminal ==
  [][\A I \in unmounted : I \notin IdsCarried(out')]_vars

\* C15 witness: a handle that was unmounted with one identity was mounted
\* again, and carries another
C15_Witness ==
  /\ call.op = "onMounted"
  /\ \E I \in unmounted :
       /\ reactElements[I] = call.element
       /\ out[1].data.id # I
       /\ out[1].data.id \in IdsCarried(out)

\* the handle a producer's helpers answer with, Null when they answer with
\* nothing, throw, or have no getReactElementFromNative
C16_Answer(renderer) ==
  CASE reactInternals[renderer].getReactElementFromNative = "obj1" -> Obj(1)
    [] reactInternals[renderer].getReactElementFromNative = "obj2" -> Obj(2)
    [] OTHER -> Null

\* C16: selectFromDOMNode asks the producers in the order in which they
\* registered their helpers; a producer that throws or answers with nothing
\* is passed over; setSelection is emitted once, with the identity of the
\* handle the first producer that answers gave and with the caller's quiet;
\* when no producer answers, nothing is emitted and nothing is thrown
C16_FirstProducerWins ==
  call.op = "selectFromDOMNode" =>
    LET answering == {i \in DOMAIN internalsKeys :
                        C16_Answer(internalsKeys[i]) # Null}
    IN IF answering = {}
       THEN out = <<>>
       ELSE LET first == CHOOSE i \in answering : \A j \in answering : i <= j
                handle == C16_Answer(internalsKeys[first])
            IN /\ handle \in DOMAIN ids
               /\ out[1] = [k |-> "emit", ev |-> "setSelection",
                            id |-> ids[handle], quiet |-> call.quiet]
               /\ Len(Emits(out, "setSelection")) = 1
               /\ \A i \in DOMAIN out : out[i].k # "throw"

\* C16 witness: renderer r2 registered before r1, both answer, with
\* different handles, and the selection is the handle of r2
C16_Witness ==
  /\ call.op = "selectFromDOMNode"
  /\ internalsKeys = <<"r2", "r1">>
  /\ C16_Answer("r2") = Obj(2)
  /\ C16_Answer("r1") = Obj(1)
  /\ {Obj(1), Obj(2)} \subseteq DOMAIN ids
  /\ out[1].id = ids[Obj(2)]

\* C16 witness of a producer passed over: the first producer throws and
\* the selection is the handle of the second
C16_WitnessPassedOver ==
  /\ call.op = "selectFromDOMNode"
  /\ Len(internalsKeys) = 2
  /\ reactInternals[internalsKeys[1]].getReactElementFromNative = "throws"
  /\ C16_Answer(internalsKeys[2]) = Obj(1)
  /\ out # <<>>
  /\ out[1].id = ids[Obj(1)]

\* C17, in every state: the poll that ran last remembers the reference it
\* saw; it emitted at most one setSelection, a quiet one, and only when the
\* reference it saw differed from the one of the poll before and from the
\* node last put in $node; none when it saw the node last put in $node
C17_State ==
  call.op = "checkSelection" =>
    LET selections == Emits(out, "setSelection") IN
    /\ _prevSelected = call.selected
    /\ Len(selections) <= 1
    /\ selections # <<>> =>
         /\ call.selected # call.prev
         /\ call.selected # call.sent
         /\ selections[1].quiet = TRUE
    /\ call.selected = call.sent => selections = <<>>

\* C17, in every step: a poll emits setSelection only when $0 differs from
\* _prevSelected and from $node, and a poll that follows a poll, $0 being
\* the same, emits none
C17_Step ==
  call'.op = "checkSelection" =>
    /\ Emits(out', "setSelection") # <<>> =>
         hook.zero # _prevSelected /\ hook.zero # hook.node
    /\ call.op = "checkSelection" => Emits(out', "setSelection") = <<>>
    /\ call'.selected = hook.zero /\ call'.prev = _prevSelected
    /\ call'.sent = hook.node

\* C17: on each checkSelection poll a quiet setSelection is emitted only if
\* the inspected reference differs from the one seen at the poll before and
\* from the node last sent; polls in a row with the same reference emit at
\* most one setSelection in all; a poll whose reference is the node last sent
\* emits none
C17_PollEdgeTriggered == [](C17_State) /\ [][C17_Step]_vars

\* C17 witness: node 1 was put in $node, node 2 was inspected, and the poll
\* selected quietly the handle the producer gave for it
C17_Witness ==
  /\ call.op = "checkSelection"
  /\ hook.node = <<"element", 1>>
  /\ hook.zero = <<"element", 2>>
  /\ Len(Emits(out, "setSelection")) = 1
  /\ out[1].quiet = TRUE
  /\ out[1].id \in DOMAIN reactElements

\* C17 witness of the silent case: the inspected node is the node last put
\* in $node, and the poll that saw it for the first time emitted nothing
C17_WitnessSilent ==
  /\ call.op = "checkSelection"
  /\ call.selected = <<"element", 1>>
  /\ call.sent = call.selected
  /\ call.prev # call.selected
  /\ reactInternals["r1"].getReactElementFromNative = "obj1"
  /\ out = <<>>

\* C18: selectFromDOMNode, selectFromReactInstance and the 'selected' event
\* leave the registry, the element store, the roots and the renderers as
\* they were, and a setSelection they emit carries an identity that was
\* registered before the call
C18_SelectionCreatesNothing ==
  [][call'.op \in {"selectFromDOMNode", "selectFromReactInstance", "selected"} =>
       /\ UNCHANGED <<ids, reactElements, guidCount, elementData, roots, renderers>>
       /\ \A i \in DOMAIN out' :
            out'[i].ev = "setSelection" =>
              \E h \in DOMAIN ids : ids[h] = out'[i].id]_vars

\* C19: for a handle that stays registered, the identity that a parent's
\* mount or update lists for it among the children and the id that its own
\* root, mount and update events carry are one and the same identity, the
\* one the registry holds, whichever event came first; and the children of
\* the payload sent last are the registered identities of the handles given
C19_ChildReferencesAgree ==
  /\ \A h \in DOMAIN carried :
       /\ Cardinality(carried[h]) = 1
       /\ h \in DOMAIN ids
       /\ carried[h] = {ids[h]}
  /\ call.op \in {"onMounted", "onUpdated"} =>
       \A j \in DOMAIN childItems(call.data) :
         IsObject(childItems(call.data)[j]) =>
           childItems(out[1].data)[j] = ids[childItems(call.data)[j]]

\* C19 witness: handle 2 was first listed as a child in the mount of handle
\* 1, still stored, and then mounted itself, no unmount in between; its own
\* mount carries the identity the parent's payload listed
C19_Witness ==
  /\ call.op = "onMounted"
  /\ call.element = Obj(2)
  /\ call.data = LeafData
  /\ unmounted = {}
  /\ Obj(1) \in DOMAIN ids
  /\ ids[Obj(1)] = guid(0)
  /\ ids[Obj(1)] \in DOMAIN elementData
  /\ elementData[ids[Obj(1)]] = ParentData
  /\ carried[Obj(2)] = {out[1].data.id}
  /\ out[1].data.id = guid(1)

\* C20, in every step: the frame callback leaves the flag clear, and the
\* scroll that comes right after it requests a new frame
C20_Step ==
  /\ call'.op = "_updateScroll" => ~scrollUpdate'
  /\ (call.op = "_updateScroll" /\ call'.op = "_onScroll") =>
       /\ out' = <<[k |-> "call", ev |-> "requestAnimationFrame"]>>
       /\ rafQueue' = rafQueue + 1
       /\ scrollUpdate'

\* C20: when the browser runs every frame callback it was asked for, every
\* scroll is followed, sooner or later, by the emission of
\* refreshMultiOverlay, a set flag is cleared sooner or later, and once a
\* refresh has run the flag is clear, so that the next scroll requests a
\* new one
C20_NoScrollLost ==
  /\ (call.op = "_onScroll") ~>
       (call.op = "_updateScroll" /\ Emits(out, "refreshMultiOverlay") # <<>>)
  /\ scrollUpdate ~> ~scrollUpdate
  /\ [][C20_Step]_vars

\* C20 witness: the frame callback that a scroll had requested has run: it
\* emitted refreshMultiOverlay, no callback is left and the flag is clear
C20_Witness ==
  /\ call.op = "_updateScroll"
  /\ Len(Emits(out, "refreshMultiOverlay")) = 1
  /\ ~scrollUpdate
  /\ rafQueue = 0

====
